---- MODULE Spec2Model ----
(***************************************************************************)
(* State-machine model of the limit order book in src/OrderBook.cpp.       *)
(*                                                                         *)
(* The OrderBook object is the state: the two price-level tables (bids,    *)
(* asks), the order arena (order_storage), the id index (order_lookup) and *)
(* the id counter (next_order_id).  Each public method is one action.      *)
(*                                                                         *)
(* Representation choices                                                  *)
(*  - std::map<double, Limit, Cmp> is a sequence of entries kept in the    *)
(*    comparator's order; iteration is the sequence order.                 *)
(*  - std::list<Order*> (Limit::orders) is a sequence of order ids: the    *)
(*    arena node of an order is identified by the immutable order_id.      *)
(*  - Order::position_in_limit designates the list node that the last      *)
(*    add_order_internal created for the order.  That node exists exactly  *)
(*    while the order is listed in the level at its price on its side; it  *)
(*    is destroyed by list::erase or together with the Limit by map::erase.*)
(*  - uint64_t values are pairs [hi, lo] standing for hi * 2^63 + lo       *)
(*    modulo 2^64, so that additions and subtractions wrap as in C++.      *)
(*  - Order::timestamp_ns is written once from the wall clock and never    *)
(*    read; it is not part of the model.                                   *)
(*  - prices are finite doubles, modelled by the integers they hold.       *)
(***************************************************************************)
EXTENDS Integers, Sequences, FiniteSets, TLC

VARIABLES bids, asks, order_storage, order_lookup, next_order_id, aborted, last, issued,
          cancel_pc

book_vars == <<bids, asks, order_storage, order_lookup, next_order_id>>
vars == <<bids, asks, order_storage, order_lookup, next_order_id, aborted, last, issued,
          cancel_pc>>

----------------------------------------------------------------------------
(* Bounds of the exploration                                               *)

\* newOrder is explored while next_order_id <= MaxOrders
MaxOrders == 2
\* getSnapshot is explored with depth in 0 .. MaxDepth
MaxDepth == 2

\* prices handed to newOrder / amendOrder
Prices == {0, 100}
\* ids handed to cancelOrder / amendOrder; 0 is never issued
OrderIds == 0 .. MaxOrders

----------------------------------------------------------------------------
(* uint64_t arithmetic                                                     *)

U64(hi, lo) == [hi |-> hi, lo |-> lo]
U64Zero == U64(0, 0)
\* a + b modulo 2^64 : the carry out of bit 63 is dropped
U64Add(a, b) == [hi |-> (a.hi + b.hi) % 2, lo |-> a.lo + b.lo]
\* a - b modulo 2^64 : the borrow into bit 63 wraps
U64Sub(a, b) == [hi |-> (a.hi + 2 - b.hi) % 2, lo |-> a.lo - b.lo]

\* quantities handed to newOrder / amendOrder : 0 and 1 (2^63 is U64(1, 0),
\* 2^64 - 1 is U64(0, -1))
Quantities == {U64(0, 0), U64(0, 1)}

----------------------------------------------------------------------------
(* Sequence helpers                                                        *)

RemoveAt(s, i) == SubSeq(s, 1, i - 1) \o SubSeq(s, i + 1, Len(s))
InsertAt(s, i, e) == SubSeq(s, 1, i - 1) \o <<e>> \o SubSeq(s, i, Len(s))
IndexOf(s, e) == IF \E i \in 1 .. Len(s) : s[i] = e
                 THEN CHOOSE i \in 1 .. Len(s) : s[i] = e
                 ELSE 0
Range(s) == {s[i] : i \in 1 .. Len(s)}

----------------------------------------------------------------------------
(* std::map<double, Limit, Compare> : a sequence of entries                *)
(*   [price, total_quantity, orders] in the comparator's order             *)

\* fault: both tables declared with the default comparator
Comp_BothAscending(is_buy, a, b) == a < b

\* key order of the two tables: std::greater<double> for bids, std::less
\* (the default) for asks
Comp(is_buy, a, b) == IF is_buy THEN a > b ELSE a < b

\* a default-constructed Limit stored under a key
NewLimit(price) == [price |-> price, total_quantity |-> U64Zero, orders |-> <<>>]

\* map::find : the index of the entry with this key, 0 for end()
Find(book_side, price) ==
    IF \E i \in 1 .. Len(book_side) : book_side[i].price = price
    THEN CHOOSE i \in 1 .. Len(book_side) : book_side[i].price = price
    ELSE 0

\* the place where map::operator[] inserts a missing key: before the first
\* entry that the key is ordered before
InsertPos(is_buy, book_side, price) ==
    IF \E i \in 1 .. Len(book_side) : Comp(is_buy, price, book_side[i].price)
    THEN CHOOSE i \in 1 .. Len(book_side) :
            /\ Comp(is_buy, price, book_side[i].price)
            /\ \A j \in 1 .. i - 1 : ~Comp(is_buy, price, book_side[j].price)
    ELSE Len(book_side) + 1

\* map::operator[] : the table after book_side[price], which inserts a
\* default Limit when the key is absent
Subscript(is_buy, book_side, price) ==
    IF Find(book_side, price) # 0
    THEN book_side
    ELSE InsertAt(book_side, InsertPos(is_buy, book_side, price), NewLimit(price))

----------------------------------------------------------------------------
(* Order arena and index                                                   *)

NewOrderRecord(id, is_buy, price, quantity) ==
    [order_id |-> id, is_buy |-> is_buy, price |-> price, quantity |-> quantity]

\* *order_it : the arena node a handle refers to
Deref(storage, handle) == storage[CHOOSE i \in 1 .. Len(storage) : storage[i].order_id = handle]

\* order_it->field = value on the node a handle refers to
StoreOrder(storage, o) ==
    [i \in 1 .. Len(storage) |-> IF storage[i].order_id = o.order_id THEN o ELSE storage[i]]

\* order_storage.erase(order_it)
EraseOrder(storage, handle) ==
    RemoveAt(storage, CHOOSE i \in 1 .. Len(storage) : storage[i].order_id = handle)

\* order_lookup.erase(it)
EraseLookup(lookup, id) == [k \in (DOMAIN lookup) \ {id} |-> lookup[k]]

----------------------------------------------------------------------------
(* Internal helpers                                                        *)

\* fault: the order is linked at the front of the list (push_front)
add_order_internal_Front(is_buy, book_side, o) ==
    LET t == Subscript(is_buy, book_side, o.price)
        i == Find(t, o.price)
    IN  [t EXCEPT ![i] = [@ EXCEPT !.orders = <<o.order_id>> \o @,
                                   !.total_quantity = U64Add(@, o.quantity)]]

\* add_order_internal(book_side, order_it)
add_order_internal(is_buy, book_side, o) ==
    LET t == Subscript(is_buy, book_side, o.price)
        i == Find(t, o.price)
    IN  [t EXCEPT ![i] = [@ EXCEPT !.orders = Append(@, o.order_id),
                                   !.total_quantity = U64Add(@, o.quantity)]]

\* position_in_limit still designates a node of the list of the level found
\* at the order's price
PositionValid(book_side, o) ==
    /\ Find(book_side, o.price) # 0
    /\ o.order_id \in Range(book_side[Find(book_side, o.price)].orders)

\* remove_order_internal reaches limit.orders.erase(position_in_limit) with
\* an iterator whose node was destroyed: undefined behaviour
StaleErase(book_side, o) ==
    /\ Find(book_side, o.price) # 0
    /\ ~PositionValid(book_side, o)

\* limit.orders.erase(order_it->position_in_limit).  Erasing through a
\* destroyed node is undefined behaviour; ub names the outcome: the process
\* aborts (-1, taken in the actions), the list is left as it is (0), or the
\* node that now occupies the freed storage, the ub-th of this list, is
\* unlinked
\* limit.orders.erase(order_it->position_in_limit)
EraseMember(orders, o, ub) ==
    IF o.order_id \in Range(orders)
    THEN RemoveAt(orders, IndexOf(orders, o.order_id))
    ELSE IF ub \in 1 .. Len(orders) THEN RemoveAt(orders, ub) ELSE orders

\* remove_order_internal(book_side, order_it)
remove_order_internal(book_side, o, ub) ==
    LET i == Find(book_side, o.price) IN
    IF i = 0
    THEN book_side
    ELSE LET total  == U64Sub(book_side[i].total_quantity, o.quantity)
             orders == EraseMember(book_side[i].orders, o, ub)
         IN  IF total = U64Zero
             THEN RemoveAt(book_side, i)
             ELSE [book_side EXCEPT ![i] = [@ EXCEPT !.total_quantity = total,
                                                     !.orders = orders]]

----------------------------------------------------------------------------
(* The public methods as functions of the book                             *)

\* the OrderBook object
Book == [bids |-> bids, asks |-> asks, order_storage |-> order_storage,
         order_lookup |-> order_lookup, next_order_id |-> next_order_id]

\* order_lookup.find(order_id) != order_lookup.end()
Found(b, order_id) == order_id \in DOMAIN b.order_lookup

\* fault: the id is taken from the size of the arena
CurrentId_ArenaSize(b) == Len(b.order_storage) + 1

\* uint64_t current_id = next_order_id++ : the id the call assigns
CurrentId(b) == b.next_order_id

\* fault: an order that crosses the best price of the other side is taken
\* as executed and not put on its own side
newOrderResult_Crossing(b, is_buy, price, quantity) ==
    LET current_id == CurrentId(b)
        o == NewOrderRecord(current_id, is_buy, price, quantity)
        crosses == IF is_buy
                   THEN b.asks # <<>> /\ price >= b.asks[1].price
                   ELSE b.bids # <<>> /\ price <= b.bids[1].price
    IN  [next_order_id |-> b.next_order_id + 1,
         order_storage |-> Append(b.order_storage, o),
         order_lookup  |-> (current_id :> current_id) @@ b.order_lookup,
         bids |-> IF is_buy /\ ~crosses THEN add_order_internal(TRUE, b.bids, o) ELSE b.bids,
         asks |-> IF is_buy \/ crosses THEN b.asks ELSE add_order_internal(FALSE, b.asks, o)]

\* the book after newOrder(is_buy, price, quantity)
newOrderResult(b, is_buy, price, quantity) ==
    LET current_id == CurrentId(b)
        o == NewOrderRecord(current_id, is_buy, price, quantity)
    IN  [next_order_id |-> b.next_order_id + 1,
         order_storage |-> Append(b.order_storage, o),
         order_lookup  |-> (current_id :> current_id) @@ b.order_lookup,
         bids |-> IF is_buy THEN add_order_internal(TRUE, b.bids, o) ELSE b.bids,
         asks |-> IF is_buy THEN b.asks ELSE add_order_internal(FALSE, b.asks, o)]

\* the book after cancelOrder(order_id) for an id the index holds
cancelOrderResult(b, order_id, ub) ==
    LET order_it == b.order_lookup[order_id]
        o == Deref(b.order_storage, order_it)
    IN  [next_order_id |-> b.next_order_id,
         bids |-> IF o.is_buy THEN remove_order_internal(b.bids, o, ub) ELSE b.bids,
         asks |-> IF o.is_buy THEN b.asks ELSE remove_order_internal(b.asks, o, ub),
         order_lookup  |-> EraseLookup(b.order_lookup, order_id),
         order_storage |-> EraseOrder(b.order_storage, order_it)]

\* fault: a level whose total reaches 0 is erased by the quantity amendment
AdjustTotal_EraseOnZero(is_buy, book_side, price, new_quantity, old_quantity) ==
    LET t == Subscript(is_buy, book_side, price)
        i == Find(t, price)
        total == U64Add(t[i].total_quantity, U64Sub(new_quantity, old_quantity))
    IN  IF total = U64Zero
        THEN RemoveAt(t, i)
        ELSE [t EXCEPT ![i] = [@ EXCEPT !.total_quantity = total]]

\* bids[price].total_quantity += quantity_delta, where quantity_delta is
\* new_quantity - old_quantity converted to int64_t and back
AdjustTotal(is_buy, book_side, price, new_quantity, old_quantity) ==
    LET t == Subscript(is_buy, book_side, price)
        i == Find(t, price)
    IN  [t EXCEPT ![i] = [@ EXCEPT !.total_quantity =
                              U64Add(@, U64Sub(new_quantity, old_quantity))]]

\* fault: the price is overwritten before the order is taken out of its
\* level, so the removal looks at the level of the new price
amendOrderResult_PriceFirst(b, order_id, new_price, new_quantity, ub) ==
    LET order_it == b.order_lookup[order_id]
        o == Deref(b.order_storage, order_it)
        m == [o EXCEPT !.price = new_price]
        n == [o EXCEPT !.price = new_price, !.quantity = new_quantity]
    IN  IF o.price # new_price
        THEN [b EXCEPT
                !.bids = IF o.is_buy
                         THEN add_order_internal(TRUE, remove_order_internal(b.bids, m, ub), n)
                         ELSE b.bids,
                !.asks = IF o.is_buy
                         THEN b.asks
                         ELSE add_order_internal(FALSE, remove_order_internal(b.asks, m, ub), n),
                !.order_storage = StoreOrder(b.order_storage, n)]
        ELSE [b EXCEPT
                !.bids = IF o.is_buy
                         THEN AdjustTotal(TRUE, b.bids, o.price, new_quantity, o.quantity)
                         ELSE b.bids,
                !.asks = IF o.is_buy
                         THEN b.asks
                         ELSE AdjustTotal(FALSE, b.asks, o.price, new_quantity, o.quantity),
                !.order_storage = StoreOrder(b.order_storage, n)]

\* the book after amendOrder(order_id, new_price, new_quantity) for an id
\* the index holds
amendOrderResult(b, order_id, new_price, new_quantity, ub) ==
    LET order_it == b.order_lookup[order_id]
        o == Deref(b.order_storage, order_it)
        n == [o EXCEPT !.price = new_price, !.quantity = new_quantity]
    IN  IF o.price # new_price
        THEN [b EXCEPT
                !.bids = IF o.is_buy
                         THEN add_order_internal(TRUE, remove_order_internal(b.bids, o, ub), n)
                         ELSE b.bids,
                !.asks = IF o.is_buy
                         THEN b.asks
                         ELSE add_order_internal(FALSE, remove_order_internal(b.asks, o, ub), n),
                !.order_storage = StoreOrder(b.order_storage, n)]
        ELSE [b EXCEPT
                !.bids = IF o.is_buy
                         THEN AdjustTotal(TRUE, b.bids, o.price, new_quantity, o.quantity)
                         ELSE b.bids,
                !.asks = IF o.is_buy
                         THEN b.asks
                         ELSE AdjustTotal(FALSE, b.asks, o.price, new_quantity, o.quantity),
                !.order_storage = StoreOrder(b.order_storage, n)]

\* fault: the not-found return is missing, the call always reports success
cancelOrderCall_AlwaysTrue(b, order_id, ub) ==
    IF ~Found(b, order_id)
    THEN [book |-> b, ret |-> TRUE]
    ELSE [book |-> cancelOrderResult(b, order_id, ub), ret |-> TRUE]

\* cancelOrder(order_id) : the book it leaves and the value it returns
cancelOrderCall(b, order_id, ub) ==
    IF ~Found(b, order_id)
    THEN [book |-> b, ret |-> FALSE]
    ELSE [book |-> cancelOrderResult(b, order_id, ub), ret |-> TRUE]

\* amendOrder(order_id, new_price, new_quantity) : the book it leaves and
\* the value it returns
amendOrderCall(b, order_id, new_price, new_quantity, ub) ==
    IF ~Found(b, order_id)
    THEN [book |-> b, ret |-> FALSE]
    ELSE [book |-> amendOrderResult(b, order_id, new_price, new_quantity, ub), ret |-> TRUE]

\* the outcomes of remove_order_internal for the order an id refers to: only
\* the defined one (0) unless the erase goes through a destroyed node
Outcomes(b, order_id) ==
    LET o == Deref(b.order_storage, b.order_lookup[order_id])
        book_side == IF o.is_buy THEN b.bids ELSE b.asks
    IN  IF StaleErase(book_side, o)
        THEN -1 .. Len(book_side[Find(book_side, o.price)].orders)
        ELSE {0}

\* amendOrder takes the branch order_it->price != new_price
PriceChanged(b, order_id, new_price) ==
    /\ Found(b, order_id)
    /\ Deref(b.order_storage, b.order_lookup[order_id]).price # new_price

\* PriceLevel{price, total_quantity} of a table entry
PriceLevelOf(e) == [price |-> e.price, total_quantity |-> e.total_quantity]

\* the loop of getSnapshot over one table, from entry i with out filled so far
RECURSIVE SnapshotLoop(_, _, _, _)
SnapshotLoop(book_side, depth, i, out) ==
    IF i > Len(book_side) \/ Len(out) >= depth
    THEN out
    ELSE SnapshotLoop(book_side, depth, i + 1, Append(out, PriceLevelOf(book_side[i])))

\* fault: the loop breaks on size() > depth
SnapshotSide_OffByOne(book_side, depth) == SnapshotLoop(book_side, depth + 1, 1, <<>>)

\* out_bids / out_asks of getSnapshot(depth, out_bids, out_asks)
SnapshotSide(book_side, depth) == SnapshotLoop(book_side, depth, 1, <<>>)

\* one half of the pair getBBO returns
BestOf(book_side) ==
    IF book_side # <<>> THEN PriceLevelOf(book_side[1])
    ELSE [price |-> 0, total_quantity |-> U64Zero]

\* the pair getBBO returns
getBBOResult(b) == <<BestOf(b.bids), BestOf(b.asks)>>

----------------------------------------------------------------------------
(* The state machine                                                       *)
(*                                                                         *)
(* aborted : the process was ended by the erase of a destroyed list node.  *)
(* last    : the last call made on the book, with what it returned.        *)
(* issued  : the values newOrder returned, in call order.                  *)
(* cancel_pc : where a caller stands inside cancelOrder, "idle" between    *)
(*           calls; it moves only in SpecThreads.                          *)

Init ==
    /\ bids = <<>>
    /\ asks = <<>>
    /\ order_storage = <<>>
    /\ order_lookup = <<>>
    /\ next_order_id = 1
    /\ aborted = FALSE
    /\ last = [op |-> "none"]
    /\ issued = <<>>
    /\ cancel_pc = [at |-> "idle"]

SetBook(b) ==
    /\ bids' = b.bids
    /\ asks' = b.asks
    /\ order_storage' = b.order_storage
    /\ order_lookup' = b.order_lookup
    /\ next_order_id' = b.next_order_id

Abort ==
    /\ aborted' = TRUE
    /\ last' = [op |-> "abort"]
    /\ UNCHANGED <<book_vars, issued, cancel_pc>>

newOrder(is_buy, price, quantity) ==
    /\ ~aborted
    /\ next_order_id <= MaxOrders
    /\ SetBook(newOrderResult(Book, is_buy, price, quantity))
    /\ last' = [op |-> "newOrder", is_buy |-> is_buy, price |-> price,
                quantity |-> quantity, ret |-> CurrentId(Book)]
    /\ issued' = Append(issued, CurrentId(Book))
    /\ UNCHANGED <<aborted, cancel_pc>>

cancelOrder(order_id) ==
    /\ ~aborted
    /\ \E ub \in (IF Found(Book, order_id) THEN Outcomes(Book, order_id) ELSE {0}) :
          IF ub = -1
          THEN Abort
          ELSE LET r == cancelOrderCall(Book, order_id, ub) IN
               /\ SetBook(r.book)
               /\ last' = [op |-> "cancelOrder", order_id |-> order_id, ret |-> r.ret]
               /\ UNCHANGED <<aborted, issued, cancel_pc>>

amendOrder(order_id, new_price, new_quantity) ==
    /\ ~aborted
    /\ \E ub \in (IF PriceChanged(Book, order_id, new_price)
                  THEN Outcomes(Book, order_id) ELSE {0}) :
          IF ub = -1
          THEN Abort
          ELSE LET r == amendOrderCall(Book, order_id, new_price, new_quantity, ub) IN
               /\ SetBook(r.book)
               /\ last' = [op |-> "amendOrder", order_id |-> order_id,
                           new_price |-> new_price, new_quantity |-> new_quantity,
                           price_changed |-> PriceChanged(Book, order_id, new_price),
                           ret |-> r.ret]
               /\ UNCHANGED <<aborted, issued, cancel_pc>>

getSnapshot(depth) ==
    /\ ~aborted
    /\ last' = [op |-> "getSnapshot", depth |-> depth,
                out_bids |-> SnapshotSide(bids, depth),
                out_asks |-> SnapshotSide(asks, depth)]
    /\ UNCHANGED <<book_vars, aborted, issued, cancel_pc>>

getBBO ==
    /\ ~aborted
    /\ last' = [op |-> "getBBO", ret |-> getBBOResult(Book)]
    /\ UNCHANGED <<book_vars, aborted, issued, cancel_pc>>

Next ==
    \/ \E is_buy \in BOOLEAN, price \in Prices, quantity \in Quantities :
          newOrder(is_buy, price, quantity)
    \/ \E order_id \in OrderIds : cancelOrder(order_id)
    \/ \E order_id \in OrderIds, new_price \in Prices, new_quantity \in Quantities :
          amendOrder(order_id, new_price, new_quantity)
    \/ \E depth \in 0 .. MaxDepth : getSnapshot(depth)
    \/ getBBO

Spec == Init /\ [][Next]_vars

----------------------------------------------------------------------------
(* The same calls with arguments from the edges of their types: a negative *)
(* price, and quantities whose sum passes 2^64.  The orders are buys.      *)

WideSides == {TRUE}
WidePrices == {-1, 100}
\* 0, 1 and 2^63
WideQuantities == {U64(0, 0), U64(0, 1), U64(1, 0)}

NextWide ==
    \/ \E is_buy \in WideSides, price \in WidePrices, quantity \in WideQuantities :
          newOrder(is_buy, price, quantity)
    \/ \E order_id \in OrderIds : cancelOrder(order_id)
    \/ \E order_id \in OrderIds, new_price \in WidePrices, new_quantity \in WideQuantities :
          amendOrder(order_id, new_price, new_quantity)
    \/ \E depth \in 0 .. MaxDepth : getSnapshot(depth)
    \/ getBBO

SpecWide == Init /\ [][NextWide]_vars

----------------------------------------------------------------------------
(* Several callers on one OrderBook.  No method takes a lock and the class *)
(* holds no mutex or atomic, so the statements of a cancelOrder in         *)
(* progress interleave with the calls of the other callers: one caller    *)
(* is followed through the three statements of cancelOrder, while the      *)
(* other callers' newOrder, amendOrder, getSnapshot and getBBO run between *)
(* them.                                                                   *)

\* lines 77-88 : the lookup and remove_order_internal
cancelOrderBegin(order_id) ==
    /\ ~aborted
    /\ cancel_pc.at = "idle"
    /\ IF ~Found(Book, order_id)
       THEN /\ last' = [op |-> "cancelOrder", order_id |-> order_id, ret |-> FALSE]
            /\ UNCHANGED <<book_vars, aborted, issued, cancel_pc>>
       ELSE \E ub \in Outcomes(Book, order_id) :
               IF ub = -1
               THEN Abort
               ELSE LET order_it == order_lookup[order_id]
                        o == Deref(order_storage, order_it)
                    IN  /\ bids' = IF o.is_buy THEN remove_order_internal(bids, o, ub)
                                   ELSE bids
                        /\ asks' = IF o.is_buy THEN asks
                                   ELSE remove_order_internal(asks, o, ub)
                        /\ cancel_pc' = [at |-> "erase_lookup", order_id |-> order_id,
                                         order_it |-> order_it]
                        /\ UNCHANGED <<order_storage, order_lookup, next_order_id,
                                       aborted, last, issued>>

\* line 90 : order_lookup.erase(it)
cancelOrderEraseLookup ==
    /\ ~aborted
    /\ cancel_pc.at = "erase_lookup"
    /\ order_lookup' = EraseLookup(order_lookup, cancel_pc.order_id)
    /\ cancel_pc' = [cancel_pc EXCEPT !.at = "erase_storage"]
    /\ UNCHANGED <<bids, asks, order_storage, next_order_id, aborted, last, issued>>

\* lines 91-93 : order_storage.erase(order_it); return true
cancelOrderEraseStorage ==
    /\ ~aborted
    /\ cancel_pc.at = "erase_storage"
    /\ order_storage' = EraseOrder(order_storage, cancel_pc.order_it)
    /\ cancel_pc' = [at |-> "idle"]
    /\ last' = [op |-> "cancelOrder", order_id |-> cancel_pc.order_id, ret |-> TRUE]
    /\ UNCHANGED <<bids, asks, order_lookup, next_order_id, aborted, issued>>

NextThreads ==
    \/ \E is_buy \in BOOLEAN, price \in Prices, quantity \in Quantities :
          newOrder(is_buy, price, quantity)
    \/ \E order_id \in OrderIds : cancelOrderBegin(order_id)
    \/ cancelOrderEraseLookup
    \/ cancelOrderEraseStorage
    \/ \E order_id \in OrderIds, new_price \in Prices, new_quantity \in Quantities :
          amendOrder(order_id, new_price, new_quantity)
    \/ \E depth \in 0 .. MaxDepth : getSnapshot(depth)
    \/ getBBO

SpecThreads == Init /\ [][NextThreads]_vars

----------------------------------------------------------------------------
(* Vocabulary of the properties                                            *)

\* ids of the orders in the arena
ArenaIds == {order_storage[i].order_id : i \in 1 .. Len(order_storage)}

\* live orders: held by the arena or by the index
LiveIds == ArenaIds \cup DOMAIN order_lookup

\* the table of a side
Table(is_buy) == IF is_buy THEN bids ELSE asks

\* the places <<side, level, slot>> where a level lists an id
Memberships(id) ==
    {m \in BOOLEAN \X (1 .. MaxOrders + 1) \X (1 .. MaxOrders + 1) :
        /\ m[2] <= Len(Table(m[1]))
        /\ m[3] <= Len(Table(m[1])[m[2]].orders)
        /\ Table(m[1])[m[2]].orders[m[3]] = id}

\* every id listed by some level
ListedIds ==
    UNION {Range(Table(sd)[i].orders) : <<sd, i>> \in
              {x \in BOOLEAN \X (1 .. MaxOrders + 1) : x[2] <= Len(Table(x[1]))}}

\* the entries of both tables
AllLevels == Range(bids) \cup Range(asks)

\* the sum of the quantities of the listed orders, as the pair
\* <<number of 2^63 terms, rest>>
RECURSIVE MemberSum(_)
MemberSum(orders) ==
    IF orders = <<>> THEN <<0, 0>>
    ELSE LET q == Deref(order_storage, Head(orders)).quantity
             r == MemberSum(Tail(orders))
         IN  <<q.hi + r[1], q.lo + r[2]>>

\* a uint64_t holds exactly the number the pair stands for
U64Equals(u, sum) == sum[1] = u.hi /\ sum[2] = u.lo

----------------------------------------------------------------------------
(* C1 - uniqueness.  Every live order id has exactly one arena entry, one  *)
(* index entry, and is listed exactly once, by the level at its price in   *)
(* the table of its side; no level lists an order that is not live.        *)
C1_Uniqueness ==
    /\ \A id \in LiveIds :
          /\ Cardinality({i \in 1 .. Len(order_storage) : order_storage[i].order_id = id}) = 1
          /\ id \in DOMAIN order_lookup
          /\ order_lookup[id] = id
          /\ Cardinality(Memberships(id)) = 1
          /\ \A m \in Memberships(id) :
                /\ m[1] = Deref(order_storage, id).is_buy
                /\ Table(m[1])[m[2]].price = Deref(order_storage, id).price
    /\ ListedIds \subseteq LiveIds

(* C2 - quantity sum.  For every level present in either table,            *)
(* total_quantity equals the sum of the quantities of the orders in the    *)
(* level's member list.                                                    *)
C2_QuantitySum ==
    \A l \in AllLevels : U64Equals(l.total_quantity, MemberSum(l.orders))

(* C7 - no residue.  Every level present in a table has total_quantity     *)
(* greater than 0 and a non-empty member list.                             *)
C7_NoEmptyLevel ==
    \A l \in AllLevels : l.total_quantity # U64Zero /\ l.orders # <<>>

----------------------------------------------------------------------------
(* Vocabulary of the step properties                                       *)

\* the book and the tables after the step
BookNext == [bids |-> bids', asks |-> asks', order_storage |-> order_storage',
             order_lookup |-> order_lookup', next_order_id |-> next_order_id']
TableNext(is_buy) == IF is_buy THEN bids' ELSE asks'

\* the member list of the level at a price, empty when there is no level
LevelOrders(book_side, price) ==
    IF Find(book_side, price) = 0 THEN <<>>
    ELSE book_side[Find(book_side, price)].orders

\* a table with one id written for another in the member lists
Rename(book_side, from, to) ==
    [i \in 1 .. Len(book_side) |->
        [book_side[i] EXCEPT !.orders =
            [j \in 1 .. Len(book_side[i].orders) |->
                IF book_side[i].orders[j] = from THEN to ELSE book_side[i].orders[j]]]]

Min(a, b) == IF a < b THEN a ELSE b

\* out is the first Min(depth, Len(book_side)) levels of the table, in the
\* table's order, each with the level's total
IsPrefixView(out, book_side, depth) ==
    /\ Len(out) = Min(depth, Len(book_side))
    /\ \A i \in 1 .. Len(out) :
          out[i] = [price |-> book_side[i].price,
                    total_quantity |-> book_side[i].total_quantity]

----------------------------------------------------------------------------
(* C3 - time priority.  In every step and for every side and price: an     *)
(* order that joins the level's member list is its last member, orders     *)
(* that stay in the list keep their relative order, newOrder appends the   *)
(* new order to the list of the level at its price, and an amendOrder that *)
(* leaves the price unchanged leaves every member list as it was.          *)
C3_TimePriority ==
    [][ /\ \A sd \in BOOLEAN, p \in Prices :
            LET before == LevelOrders(Table(sd), p)
                after  == LevelOrders(TableNext(sd), p)
            IN  /\ \A x \in Range(after) \ Range(before) : after[Len(after)] = x
                /\ \A x, y \in Range(before) \cap Range(after) :
                      IndexOf(before, x) < IndexOf(before, y)
                          => IndexOf(after, x) < IndexOf(after, y)
                /\ (last'.op = "amendOrder" /\ ~last'.price_changed) => after = before
        /\ last'.op = "newOrder" =>
            LET o == Deref(order_storage', last'.ret)
            IN  LevelOrders(TableNext(o.is_buy), o.price)
                  = Append(LevelOrders(Table(o.is_buy), o.price), last'.ret)
      ]_vars

\* order 1 was amended in quantity only and is still ahead of order 2
C3_Witness ==
    /\ last.op = "amendOrder"
    /\ last.ret /\ ~last.price_changed /\ last.order_id = 1
    /\ \E l \in AllLevels : l.orders = <<1, 2>>

(* C4 - amend with a new price.  amendOrder(id, p, q) on a live order      *)
(* whose price is not p keeps the order's id and side, gives it price p    *)
(* and quantity q, takes it out of the list of its old level and makes it  *)
(* the last member of the level at p; both tables are then what            *)
(* cancelOrder(id) followed by newOrder(side, p, q) leaves, with the       *)
(* order's id in the place of the newly assigned one.                      *)
C4_AmendPriceIsCancelNew ==
    [][ (last'.op = "amendOrder" /\ last'.price_changed) =>
            LET id == last'.order_id
                p == last'.new_price
                q == last'.new_quantity
                o == Deref(order_storage, id)
                n == Deref(order_storage', id)
                lp == LevelOrders(TableNext(o.is_buy), p)
            IN  /\ last'.ret = TRUE
                /\ n = NewOrderRecord(id, o.is_buy, p, q)
                /\ id \notin Range(LevelOrders(TableNext(o.is_buy), o.price))
                /\ lp # <<>>
                /\ lp[Len(lp)] = id
                /\ \E ub \in Outcomes(Book, id) \ {-1} :
                      \E c \in {cancelOrderCall(Book, id, ub).book} :
                      \E r \in {newOrderResult(c, o.is_buy, p, q)} :
                          /\ Rename(r.bids, CurrentId(c), id) = bids'
                          /\ Rename(r.asks, CurrentId(c), id) = asks'
      ]_vars

\* order 1 was amended to the price of order 2 and now queues behind it
C4_Witness ==
    /\ last.op = "amendOrder"
    /\ last.ret /\ last.price_changed /\ last.order_id = 1
    /\ \E l \in AllLevels : l.orders = <<2, 1>>

(* C5 - not found.  cancelOrder or amendOrder with an id that no order in  *)
(* the arena carries (never issued, or cancelled before) returns false and *)
(* leaves both tables, the arena, the index and next_order_id unchanged.   *)
C5_NotFoundNoEffect ==
    [][ (last'.op \in {"cancelOrder", "amendOrder"} /\ last'.order_id \notin ArenaIds)
            => (last'.ret = FALSE /\ UNCHANGED book_vars) ]_vars

\* a cancel of an id that was issued and cancelled before, on a book that
\* still holds an order
C5_Witness ==
    /\ last.op = "cancelOrder"
    /\ last.ret = FALSE
    /\ last.order_id \in Range(issued)
    /\ AllLevels # {}

(* C6 - round trip.  cancelOrder(id) right after id = newOrder(...) gives  *)
(* back the tables of before the newOrder: the same levels with the same   *)
(* totals and member lists on both sides, and the same BBO.                *)
C6_RoundTrip ==
    [][ last'.op = "newOrder" =>
            LET r == cancelOrderCall(BookNext, last'.ret, 0)
            IN  /\ r.ret = TRUE
                /\ r.book.bids = bids
                /\ r.book.asks = asks
                /\ getBBOResult(r.book) = getBBOResult(Book)
      ]_vars

(* C8 - ordering.  bids is strictly descending and asks strictly ascending *)
(* in price, so no price occurs twice on a side; getSnapshot reports them  *)
(* in these orders, and getBBO reports the highest bid price and the       *)
(* lowest ask price of the tables.                                         *)
C8_Ordering ==
    /\ \A i, j \in 1 .. Len(bids) : i < j => bids[i].price > bids[j].price
    /\ \A i, j \in 1 .. Len(asks) : i < j => asks[i].price < asks[j].price
    /\ last.op = "getSnapshot" =>
          /\ \A i, j \in 1 .. Len(last.out_bids) :
                i < j => last.out_bids[i].price > last.out_bids[j].price
          /\ \A i, j \in 1 .. Len(last.out_asks) :
                i < j => last.out_asks[i].price < last.out_asks[j].price
    /\ last.op = "getBBO" =>
          /\ bids # <<>> =>
                /\ \E l \in Range(bids) : l.price = last.ret[1].price
                /\ \A l \in Range(bids) : l.price <= last.ret[1].price
          /\ asks # <<>> =>
                /\ \E l \in Range(asks) : l.price = last.ret[2].price
                /\ \A l \in Range(asks) : l.price >= last.ret[2].price

\* getBBO on a book with two bid levels
C8_Witness ==
    /\ last.op = "getBBO"
    /\ Len(bids) = 2

(* C9 - snapshot.  getSnapshot(depth) returns for each side the first      *)
(* min(depth, number of levels) levels in the table's order with their     *)
(* totals, and changes nothing of the book.                                *)
C9_Snapshot ==
    [][ last'.op = "getSnapshot" =>
            /\ IsPrefixView(last'.out_bids, bids, last'.depth)
            /\ IsPrefixView(last'.out_asks, asks, last'.depth)
            /\ UNCHANGED <<book_vars, aborted, issued>>
      ]_vars

\* a snapshot of depth 1 of a book with two bid levels
C9_Witness ==
    /\ last.op = "getSnapshot"
    /\ last.depth = 1
    /\ Len(bids) = 2
    /\ Len(last.out_bids) = 1

(* C10 - ids.  The k-th call of newOrder returns k, whatever calls of      *)
(* cancelOrder and amendOrder come in between: the ids are positive,       *)
(* strictly increasing and never issued twice.                             *)
C10_IdSequence ==
    /\ \A k \in 1 .. Len(issued) : issued[k] = k
    /\ last.op = "newOrder" => last.ret = Len(issued)

\* the second newOrder, made after order 1 was cancelled, returned 2
C10_Witness ==
    /\ last.op = "newOrder"
    /\ last.ret = 2
    /\ ArenaIds = {2}

----------------------------------------------------------------------------
\* the total of the level at a price, 0 when there is no level
LevelTotal(book_side, price) ==
    IF Find(book_side, price) = 0 THEN U64Zero
    ELSE book_side[Find(book_side, price)].total_quantity

\* the prices of the levels of a table
LevelPrices(book_side) == {book_side[i].price : i \in 1 .. Len(book_side)}

(* C11 - no matching.  newOrder(side, price, quantity) leaves the table of *)
(* the other side and every order already in the arena and the index as    *)
(* they were, also when the price crosses the best price of the other      *)
(* side; the new order is stored with its full quantity, appended to the   *)
(* level at its price on its own side, whose total grows by the quantity,  *)
(* and the other levels of its side are unchanged.                         *)
C11_NoMatching ==
    [][ last'.op = "newOrder" =>
            LET id == last'.ret
                sd == last'.is_buy
                p  == last'.price
                q  == last'.quantity
            IN  /\ TableNext(~sd) = Table(~sd)
                /\ order_storage' = Append(order_storage, NewOrderRecord(id, sd, p, q))
                /\ \A k \in DOMAIN order_lookup : order_lookup'[k] = order_lookup[k]
                /\ LevelOrders(TableNext(sd), p) = Append(LevelOrders(Table(sd), p), id)
                /\ LevelTotal(TableNext(sd), p) = U64Add(LevelTotal(Table(sd), p), q)
                /\ LevelPrices(TableNext(sd)) = LevelPrices(Table(sd)) \cup {p}
                /\ \A p2 \in LevelPrices(Table(sd)) \ {p} :
                      /\ LevelOrders(TableNext(sd), p2) = LevelOrders(Table(sd), p2)
                      /\ LevelTotal(TableNext(sd), p2) = LevelTotal(Table(sd), p2)
      ]_vars

\* a buy order of quantity 1 was placed at or above the best ask and both
\* rest: the book is crossed
C11_Witness ==
    /\ last.op = "newOrder"
    /\ last.is_buy /\ last.quantity = U64(0, 1)
    /\ asks # <<>> /\ bids # <<>>
    /\ last.price >= asks[1].price
    /\ bids[1].price >= asks[1].price
    /\ asks[1].total_quantity = U64(0, 1)

(* C12 - invalid arguments.  A newOrder or amendOrder called with a        *)
(* negative price is rejected: it leaves both tables, the arena, the index *)
(* and next_order_id unchanged.  (A negative quantity cannot reach the     *)
(* methods: the parameter is a uint64_t.)                                  *)
C12_NegativeRejected ==
    [][ (\/ last'.op = "newOrder" /\ last'.price < 0
         \/ last'.op = "amendOrder" /\ last'.new_price < 0)
            => UNCHANGED book_vars ]_vars

(* C13 - empty marker.  What getBBO returns for a side that holds a level  *)
(* differs from what it returns for an empty side.                         *)
C13_EmptyMarker ==
    last.op = "getBBO" =>
        /\ bids # <<>> => last.ret[1] # BestOf(<<>>)
        /\ asks # <<>> => last.ret[2] # BestOf(<<>>)

----------------------------------------------------------------------------
\* every price handed to the calls
AllPrices == Prices \cup WidePrices

\* the sum of the quantities of the orders of the arena that are of a side
\* and at a price, as the pair <<number of 2^63 terms, rest>>
RECURSIVE LiveSumFrom(_, _, _)
LiveSumFrom(i, is_buy, price) ==
    IF i > Len(order_storage) THEN <<0, 0>>
    ELSE LET o == order_storage[i]
             r == LiveSumFrom(i + 1, is_buy, price)
         IN  IF o.is_buy = is_buy /\ o.price = price
             THEN <<o.quantity.hi + r[1], o.quantity.lo + r[2]>>
             ELSE r
LiveSum(is_buy, price) == LiveSumFrom(1, is_buy, price)

\* the total a snapshot side reports at a price, 0 when it does not list it
Reported(out, price) ==
    IF \E i \in 1 .. Len(out) : out[i].price = price
    THEN out[CHOOSE i \in 1 .. Len(out) : out[i].price = price].total_quantity
    ELSE U64Zero

\* the last call was a getSnapshot deep enough to show every level
FullSnapshot ==
    /\ last.op = "getSnapshot"
    /\ last.depth >= Len(bids)
    /\ last.depth >= Len(asks)

(* C14 - aggregated view.  For every side and price, the total             *)
(* that a getSnapshot showing every level reports at the price, 0 when the *)
(* price is not listed, equals the sum of the quantities of the live       *)
(* orders of that side at that price.                                      *)
C14_ViewIsSum ==
    FullSnapshot =>
        \A p \in AllPrices :
            /\ U64Equals(Reported(last.out_bids, p), LiveSum(TRUE, p))
            /\ U64Equals(Reported(last.out_asks, p), LiveSum(FALSE, p))

\* the order that the id of the call referred to when the call began
CalledOrder == Deref(order_storage, order_lookup[last'.order_id])

\* the step is a cancelOrder or a price-changing amendOrder that found its
\* order, and so called remove_order_internal on it
RemovesLiveOrder ==
    \/ last'.op = "cancelOrder" /\ last'.ret
    \/ last'.op = "amendOrder" /\ last'.ret /\ last'.price_changed

(* C15 - valid position.  Whenever cancelOrder or a price-changing         *)
(* amendOrder removes a live order, the table of the order's side has a    *)
(* level at the order's recorded price and the member list of that level   *)
(* holds the order; no call ends in the erase of a stale position.         *)
C15_PositionValid ==
    [][ /\ last'.op # "abort"
        /\ RemovesLiveOrder =>
               PositionValid(Table(CalledOrder.is_buy), CalledOrder)
      ]_vars

(* C16 - sole member.  A cancelOrder of an order that is the only member   *)
(* of its level removes the level from the table of its side, and a price  *)
(* that has no level on a side gets one, and so can be shown by a          *)
(* snapshot again, only by a newOrder at that price on that side or by an  *)
(* amendOrder to that price.                                               *)
C16_SoleMemberRemovesLevel ==
    [][ /\ (last'.op = "cancelOrder" /\ last'.ret) =>
               LET o == CalledOrder IN
               LevelOrders(Table(o.is_buy), o.price) = <<o.order_id>> =>
                   Find(TableNext(o.is_buy), o.price) = 0
        /\ \A is_buy \in BOOLEAN, price \in AllPrices :
               (Find(Table(is_buy), price) = 0 /\ Find(TableNext(is_buy), price) # 0) =>
                   \/ /\ last'.op = "newOrder"
                      /\ last'.is_buy = is_buy
                      /\ last'.price = price
                   \/ /\ last'.op = "amendOrder"
                      /\ last'.ret
                      /\ last'.new_price = price
      ]_vars

\* the integer a uint64_t stands for, as <<number of 2^63 terms, rest>>
IntOf(u) == IF u.hi = 0 /\ u.lo < 0 THEN <<2, u.lo>> ELSE <<u.hi, u.lo>>

(* C17 - quantity amend.  An amendOrder that finds its order and keeps its *)
(* price leaves the level at that price with a total equal, as an integer, *)
(* to the total before minus the order's old quantity plus new_quantity;   *)
(* the order's quantity becomes new_quantity and the total of every other  *)
(* level is unchanged.                                                     *)
C17_QuantityAmend ==
    [][ (last'.op = "amendOrder" /\ last'.ret /\ ~last'.price_changed) =>
            LET o      == CalledOrder
                before == IntOf(LevelTotal(Table(o.is_buy), o.price))
                after  == IntOf(LevelTotal(TableNext(o.is_buy), o.price))
                old    == IntOf(o.quantity)
                new    == IntOf(last'.new_quantity)
            IN  /\ after[1] = before[1] - old[1] + new[1]
                /\ after[2] = before[2] - old[2] + new[2]
                /\ Deref(order_storage', order_lookup'[o.order_id]).quantity
                       = last'.new_quantity
                /\ \A is_buy \in BOOLEAN, price \in AllPrices :
                       (is_buy # o.is_buy \/ price # o.price) =>
                           LevelTotal(TableNext(is_buy), price)
                               = LevelTotal(Table(is_buy), price)
      ]_vars

\* the step is an amendOrder that returned true, kept the price of its order
\* and set its quantity to 0
ZeroQuantityAmend ==
    /\ last'.op = "amendOrder"
    /\ last'.ret
    /\ ~last'.price_changed
    /\ last'.new_quantity = U64Zero

(* C18 - zero quantity.  amendOrder(id, current price, 0) on a live order  *)
(* returns true and cancels nothing: the index is unchanged and still      *)
(* holds the id, the order is stored with quantity 0, every member list is *)
(* as it was, the level at the order's price is in the table and a         *)
(* snapshot of every level shows its price, and a cancelOrder(id) that     *)
(* follows finds the order.                                                *)
C18_ZeroAmendKeepsOrder ==
    [][ ZeroQuantityAmend =>
            LET o    == CalledOrder
                t    == TableNext(o.is_buy)
                snap == SnapshotSide(t, Len(t))
            IN  /\ order_lookup' = order_lookup
                /\ order_storage' = StoreOrder(order_storage,
                                               [o EXCEPT !.quantity = U64Zero])
                /\ \A is_buy \in BOOLEAN, price \in AllPrices :
                       LevelOrders(TableNext(is_buy), price)
                           = LevelOrders(Table(is_buy), price)
                /\ Find(t, o.price) # 0
                /\ \E i \in 1 .. Len(snap) : snap[i].price = o.price
                /\ cancelOrderCall(BookNext, o.order_id, 0).ret = TRUE
      ]_vars

\* a zero-quantity amendment has just been applied to the second member of
\* a level, which is still listed second and whose level now totals 0
C18_Witness ==
    /\ last.op = "amendOrder"
    /\ last.ret
    /\ ~last.price_changed
    /\ last.new_quantity = U64Zero
    /\ \E l \in AllLevels :
           /\ Len(l.orders) = 2
           /\ l.orders[2] = last.order_id
           /\ l.total_quantity = U64Zero
           /\ Deref(order_storage, order_lookup[last.order_id]).price = l.price

====
